---- MODULE Spec2Model ----
(***************************************************************************)
(* Timetable scheduler of src/main.py: the greedy per-group assignment     *)
(* (schedule_room), the slot sequencer (generate_schedule_slots), the      *)
(* room relabelling (convert_room_letter_to_number) and the run loop of    *)
(* SchedulerApp.update_grid that threads slots_used / teacher_slots        *)
(* through every group.                                                    *)
(*                                                                         *)
(* Python strings that the code takes apart (room, group, teacher, code    *)
(* and slot identifiers) are sequences of one-character strings, so that   *)
(* strip / upper / split / re.match / f-strings are computed, not assumed. *)
(* The Thai literals of the source are written in ASCII:                   *)
(*   "no subject"        for the label of line 201                         *)
(*   "unplaceable"       for the label of line 207                         *)
(*   "teacher clash at " for the prefix of line 204                        *)
(*   "room full"         for the part of line 206                          *)
(*   "Monday" .. "Friday" for the keys of DAY_TH_TO_CODE (lines 15-19).    *)
(* A credit is kept in quarter hours (credit 2.0 is 8), which is exact for *)
(* every credit the model uses and keeps floor(2*credit) a real floor.     *)
(***************************************************************************)
EXTENDS Integers, Sequences, FiniteSets, TLC

(***************************************************************************)
(* Characters and Python string primitives                                 *)
(***************************************************************************)

\* the characters the identifiers of the model are made of, in code-point order
CharOrder ==
    << " ", ",", "/", "0", "1", "2", "3", "4", "5", "6", "7", "8", "9",
       "A", "B", "E", "F", "H", "K", "L", "M", "P", "T", "W", "X", "a", "b" >>

DigitChars == <<"0", "1", "2", "3", "4", "5", "6", "7", "8", "9">>

UpperChars == {"A", "B", "E", "F", "H", "K", "L", "M", "P", "T", "W", "X"}

IsDigit(c) == \E i \in 1..Len(DigitChars) : DigitChars[i] = c

Ord(c) == CHOOSE i \in 1..Len(CharOrder) : CharOrder[i] = c

\* str.upper() on one character
UpperChar(c) == IF c = "a" THEN "A" ELSE IF c = "b" THEN "B" ELSE c

\* str.upper()
upper(s) == [i \in 1..Len(s) |-> UpperChar(s[i])]

RECURSIVE LStrip(_)
LStrip(s) == IF s # <<>> /\ Head(s) = " " THEN LStrip(Tail(s)) ELSE s

RECURSIVE RStrip(_)
RStrip(s) == IF s # <<>> /\ s[Len(s)] = " " THEN RStrip(SubSeq(s, 1, Len(s) - 1)) ELSE s

\* str.strip()
strip(s) == RStrip(LStrip(s))

\* Python's < on two strings (lexicographic by code point)
RECURSIVE StrLess(_, _)
StrLess(a, b) ==
    IF b = <<>> THEN FALSE
    ELSE IF a = <<>> THEN TRUE
    ELSE IF Head(a) = Head(b) THEN StrLess(Tail(a), Tail(b))
    ELSE Ord(Head(a)) < Ord(Head(b))

\* str(n) for a non-negative int
RECURSIVE IntToStr(_)
IntToStr(n) ==
    IF n < 10 THEN <<DigitChars[n + 1]>>
    ELSE IntToStr(n \div 10) \o <<DigitChars[(n % 10) + 1]>>

DigitValue(c) == (CHOOSE i \in 1..Len(DigitChars) : DigitChars[i] = c) - 1

\* int(s) for a string of digits
RECURSIVE StrToInt(_)
StrToInt(s) ==
    IF s = <<>> THEN 0
    ELSE 10 * StrToInt(SubSeq(s, 1, Len(s) - 1)) + DigitValue(s[Len(s)])

\* str.split("/")
RECURSIVE SplitSlash(_)
SplitSlash(s) ==
    IF \A i \in 1..Len(s) : s[i] # "/" THEN <<s>>
    ELSE LET k == CHOOSE i \in 1..Len(s) :
                      s[i] = "/" /\ \A j \in 1..(i - 1) : s[j] # "/"
         IN  <<SubSeq(s, 1, k - 1)>> \o SplitSlash(SubSeq(s, k + 1, Len(s)))

\* length of the longest prefix of s made of upper-case letters
RECURSIVE UpperRun(_)
UpperRun(s) ==
    IF s # <<>> /\ Head(s) \in UpperChars THEN 1 + UpperRun(Tail(s)) ELSE 0

\* length of the longest prefix of s made of digits
RECURSIVE DigitRun(_)
DigitRun(s) ==
    IF s # <<>> /\ IsDigit(Head(s)) THEN 1 + DigitRun(Tail(s)) ELSE 0

\* re.match(r"([A-Z]+)(\d+)", s): both groups are greedy and the two
\* character classes are disjoint, so the match is the longest run of each
ReMatch(s) ==
    LET nl   == UpperRun(s)
        rest == SubSeq(s, nl + 1, Len(s))
        nd   == DigitRun(rest)
    IN  [ok     |-> nl > 0 /\ nd > 0,
         letter |-> SubSeq(s, 1, nl),
         number |-> SubSeq(rest, 1, nd)]

RECURSIVE Flatten(_)
Flatten(ss) == IF Len(ss) = 0 THEN <<>> ELSE Head(ss) \o Flatten(Tail(ss))

(***************************************************************************)
(* Helpers of src/main.py                                                  *)
(***************************************************************************)

\* short_room: parts[0] + parts[-1] of room.split("/")
short_room(room) ==
    LET parts == SplitSlash(room) IN parts[1] \o parts[Len(parts)]

\* parse_room_building: room.strip().split("/")[0].upper()
parse_room_building(room) == upper(SplitSlash(strip(room))[1])

\* convert_room_letter_to_number
convert_room_letter_to_number(room, mapping) ==
    LET m == ReMatch(upper(strip(room)))
    IN  IF ~m.ok THEN room
        ELSE LET new_prefix == IF m.letter \in DOMAIN mapping
                               THEN IntToStr(mapping[m.letter])
                               ELSE m.letter
             IN  new_prefix \o m.number

(***************************************************************************)
(* Slot sequencer                                                          *)
(***************************************************************************)

days == << <<"M">>, <<"T">>, <<"W">>, <<"T", "H">>, <<"F">> >>

\* f"{d}{p}"
SlotName(d, p) == d \o IntToStr(p)

\* for d in days: order.append(f"{d}{p1}"); order.append(f"{d}{p2}")
DayMajor(p1, p2) ==
    Flatten([i \in 1..Len(days) |-> <<SlotName(days[i], p1), SlotName(days[i], p2)>>])

\* for p in ps: for d in days: order.append(f"{d}{p}")
PeriodMajor(ps) ==
    Flatten([j \in 1..Len(ps) |-> [i \in 1..Len(days) |-> SlotName(days[i], ps[j])]])

append_red == DayMajor(2, 3)

append_red_extra == DayMajor(6, 7)

append_orange == PeriodMajor(<<4, 1>>)

append_yellow == PeriodMajor(<<8, 9, 10, 11>>)

\* generate_schedule_slots whose low-load branch also calls append_red_extra
generate_schedule_slots_dup(total_credit) ==
    IF total_credit <= 18 * 4
    THEN append_red \o append_red_extra \o PeriodMajor(<<6>>) \o PeriodMajor(<<7>>)
                    \o append_orange \o append_yellow
    ELSE append_red \o append_red_extra \o append_orange \o append_yellow

\* total_credit is in quarter hours, so the threshold 18 is 18 * 4
generate_schedule_slots(total_credit) ==
    IF total_credit <= 18 * 4
    THEN append_red \o PeriodMajor(<<6>>) \o PeriodMajor(<<7>>)
                    \o append_orange \o append_yellow
    ELSE append_red \o append_red_extra \o append_orange \o append_yellow

(***************************************************************************)
(* Data of one scheduling run                                              *)
(***************************************************************************)

periods == 1..11

\* DAY_TH_TO_CODE
DAY_TH_TO_CODE ==
    [th \in {"Monday", "Tuesday", "Wednesday", "Thursday", "Friday"} |->
        CASE th = "Monday"    -> <<"M">>
          [] th = "Tuesday"   -> <<"T">>
          [] th = "Wednesday" -> <<"W">>
          [] th = "Thursday"  -> <<"T", "H">>
          [] th = "Friday"    -> <<"F">>]

dayNames == <<"Mon", "Tue", "Wed", "Thu", "Fri">>

\* day_map = dict(zip(days, ["Mon", "Tue", "Wed", "Thu", "Fri"]))
day_map(d) == dayNames[CHOOSE i \in 1..Len(days) : days[i] = d]

\* the keys update_grid gives slots_used
AllSlots == {SlotName(days[i], p) : i \in 1..Len(days), p \in periods}

\* a table cell is a Python str (a sequence of text pieces) or a dict
StrCell(text) == [kind |-> "str", text |-> text]

DictCell(code, teacher, room) ==
    [kind |-> "dict", code |-> code, teacher |-> teacher, room |-> room]

\* pd.DataFrame("", index=day_map.values(), columns=range(1, 12))
EmptyTable == [dn \in {dayNames[i] : i \in 1..Len(dayNames)} |-> [p \in periods |-> StrCell(<<>>)]]

TableSet(table, dn, p, cell) == [table EXCEPT ![dn][p] = cell]

EmptyDict == [k \in {} |-> <<>>]

\* d.get(k, {})
DictGet(d, k) == IF k \in DOMAIN d THEN d[k] ELSE EmptyDict

\* d[k] = v
DictSet(d, k, v) == [x \in (DOMAIN d) \cup {k} |-> IF x = k THEN v ELSE d[x]]

Max(a, b) == IF a >= b THEN a ELSE b

Min(a, b) == IF a <= b THEN a ELSE b

\* s[a:b] of Python (0-based, half open, clipped)
Slice(s, a, b) ==
    LET lo == Min(a, Len(s))
        hi == Min(b, Len(s))
    IN  [i \in 1..Max(hi - lo, 0) |-> s[lo + i]]

\* ListRemove dropping every element equal to x
RECURSIVE ListRemoveAll(_, _)
ListRemoveAll(l, x) ==
    IF l = <<>> THEN <<>>
    ELSE IF Head(l) = x THEN ListRemoveAll(Tail(l), x)
    ELSE <<Head(l)>> \o ListRemoveAll(Tail(l), x)

\* list.remove(x): drops the first element equal to x
RECURSIVE ListRemove(_, _)
ListRemove(l, x) ==
    IF l = <<>> THEN <<>>
    ELSE IF Head(l) = x THEN Tail(l)
    ELSE <<Head(l)>> \o ListRemove(Tail(l), x)

\* sorted(set_of_strings)
RECURSIVE SortedStrings(_)
SortedStrings(S) ==
    IF S = {} THEN <<>>
    ELSE LET m == CHOOSE x \in S : \A y \in S \ {x} : StrLess(x, y)
         IN  <<m>> \o SortedStrings(S \ {m})

\* sep.join(list_of_strings), sep one text piece
RECURSIVE Join(_, _)
Join(l, sep) ==
    IF l = <<>> THEN <<>>
    ELSE IF Len(l) = 1 THEN l[1]
    ELSE l[1] \o <<sep>> \o Join(Tail(l), sep)

(***************************************************************************)
(* schedule_room, lines 199-229: fmt, locks, tasks, bands                  *)
(***************************************************************************)

\* fmt with the room-full part written only when there is no teacher clash
fmtClashHidesFull(tr_rooms, room_conf, total_tasks) ==
    IF total_tasks = 0 THEN <<"no subject">>
    ELSE LET clash == IF tr_rooms # {}
                      THEN << <<"teacher clash at ">>
                              \o Join(SortedStrings({short_room(r) : r \in tr_rooms}), ",") >>
                      ELSE <<>>
             full  == IF room_conf /\ tr_rooms = {} THEN << <<"room full">> >> ELSE <<>>
             parts == clash \o full
         IN  IF parts # <<>>
             THEN <<"unplaceable", "(">> \o Join(parts, ", ") \o <<")">>
             ELSE <<"unplaceable">>

\* fmt(tr_rooms, room_conf, total_tasks)
fmt(tr_rooms, room_conf, total_tasks) ==
    IF total_tasks = 0 THEN <<"no subject">>
    ELSE LET clash == IF tr_rooms # {}
                      THEN << <<"teacher clash at ">>
                              \o Join(SortedStrings({short_room(r) : r \in tr_rooms}), ",") >>
                      ELSE <<>>
             full  == IF room_conf THEN << <<"room full">> >> ELSE <<>>
             parts == clash \o full
         IN  IF parts # <<>>
             THEN <<"unplaceable", "(">> \o Join(parts, ", ") \o <<")">>
             ELSE <<"unplaceable">>

\* "ALL" in lk["rooms"] or group in lk["rooms"]
LockMatches(lk, group) ==
    \E i \in 1..Len(lk.rooms) : lk.rooms[i] = <<"A", "L", "L">> \/ lk.rooms[i] = group

\* sl = f"{d}{p}" of a lock
LockSlot(lk) == SlotName(DAY_TH_TO_CODE[lk.day], StrToInt(lk.period))

\* ApplyLocks writing the lock names only, line 215 left out
RECURSIVE ApplyLocksNoMark(_, _, _)
ApplyLocksNoMark(lks, group, st) ==
    IF lks = <<>> THEN st
    ELSE LET lk == Head(lks)
             d  == DAY_TH_TO_CODE[lk.day]
             p  == StrToInt(lk.period)
         IN  IF LockMatches(lk, group)
             THEN ApplyLocksNoMark(Tail(lks), group,
                     [st EXCEPT !.table = TableSet(@, day_map(d), p, StrCell(lk.name))])
             ELSE ApplyLocksNoMark(Tail(lks), group, st)

\* the loop over locks: st carries table and slots_used
RECURSIVE ApplyLocks(_, _, _)
ApplyLocks(lks, group, st) ==
    IF lks = <<>> THEN st
    ELSE LET lk == Head(lks)
             d  == DAY_TH_TO_CODE[lk.day]
             p  == StrToInt(lk.period)
             sl == SlotName(d, p)
         IN  IF LockMatches(lk, group)
             THEN ApplyLocks(Tail(lks), group,
                     [st EXCEPT !.table = TableSet(@, day_map(d), p, StrCell(lk.name)),
                                !.slots_used[sl] = @ \cup {group}])
             ELSE ApplyLocks(Tail(lks), group, st)

\* subs = [s for s in subjects if s["group"] == group]
RECURSIVE GroupSubjects(_, _)
GroupSubjects(subs, group) ==
    IF subs = <<>> THEN <<>>
    ELSE IF Head(subs).group = group
         THEN <<Head(subs)>> \o GroupSubjects(Tail(subs), group)
         ELSE GroupSubjects(Tail(subs), group)

\* sum(s["credit"] for s in subs)
RECURSIVE TotalCredit(_)
TotalCredit(subs) ==
    IF subs = <<>> THEN 0 ELSE Head(subs).credit + TotalCredit(Tail(subs))

\* max(1, int(s["credit"] * 2)); the credit is in quarter hours
TaskCount(s) == Max(1, s.credit \div 2)

\* tasks += [s.copy() for _ in range(...)] for every s of subs
GenerateTasks(subs) ==
    Flatten([i \in 1..Len(subs) |-> [k \in 1..TaskCount(subs[i]) |-> subs[i]]])

\* the sort key (parse_room_building(x["group"]), -x["weight"], x["code"])
KeyLess(x, y) ==
    LET bx == parse_room_building(x.group)
        by == parse_room_building(y.group)
    IN  \/ StrLess(bx, by)
        \/ bx = by /\ (0 - x.weight) < (0 - y.weight)
        \/ bx = by /\ x.weight = y.weight /\ StrLess(x.code, y.code)

\* one step of a stable sort: x goes before the first element with a larger key
RECURSIVE InsertStable(_, _)
InsertStable(l, x) ==
    IF l = <<>> THEN <<x>>
    ELSE IF KeyLess(x, Head(l)) THEN <<x>> \o l
    ELSE <<Head(l)>> \o InsertStable(Tail(l), x)

RECURSIVE SortFrom(_, _)
SortFrom(done, todo) ==
    IF todo = <<>> THEN done ELSE SortFrom(InsertStable(done, Head(todo)), Tail(todo))

\* sort_by_building: sorted() is stable
sort_by_building(task_list) == SortFrom(<<>>, task_list)

\* RedN with the comparison strict: a total credit of exactly 18 gets 20
RedNStrict(total_credit) == IF total_credit < 18 * 4 THEN 15 ELSE 20

\* red_n = 15 if total_credit <= 18 else 20
RedN(total_credit) == IF total_credit <= 18 * 4 THEN 15 ELSE 20

\* all_tasks of line 228
CandidatePool(subs) ==
    LET total_credit == TotalCredit(subs)
        red_n  == RedN(total_credit)
        tasks  == GenerateTasks(subs)
        red    == Slice(tasks, 0, red_n)
        orange == Slice(tasks, red_n, red_n + 10)
        yellow == Slice(tasks, red_n + 10, Len(tasks))
    IN  sort_by_building(red) \o sort_by_building(orange) \o sort_by_building(yellow)

(***************************************************************************)
(* schedule_room, lines 231-267: the walk over the slot sequence           *)
(* A run state st is [table, slots_used, teacher_slots, all_tasks].        *)
(***************************************************************************)

\* TeacherBusy looking the task up under its code instead of its teacher
TeacherBusyWrongKey(teacher_slots, t, sl) == sl \in DOMAIN DictGet(teacher_slots, t.code)

\* sl in teacher_slots.get(t["teacher"], {})
TeacherBusy(teacher_slots, t, sl) == sl \in DOMAIN DictGet(teacher_slots, t.teacher)

\* ScanRooms taking the last free room of the list instead of the first
RECURSIVE ScanRoomsLastFree(_, _, _)
ScanRoomsLastFree(rooms, used, conf) ==
    IF rooms = <<>> THEN [found |-> FALSE, actual |-> <<>>, conf |-> conf]
    ELSE LET rest == ScanRoomsLastFree(Tail(rooms), used, conf)
         IN  IF rest.found THEN rest
             ELSE IF Head(rooms) \in used
                  THEN [found |-> FALSE, actual |-> <<>>, conf |-> TRUE]
                  ELSE [found |-> TRUE, actual |-> Head(rooms), conf |-> conf]

\* ScanRooms without the test of line 245
ScanRoomsIgnoreUsed(rooms, used, conf) ==
    IF rooms = <<>> THEN [found |-> FALSE, actual |-> <<>>, conf |-> conf]
    ELSE [found |-> TRUE, actual |-> Head(rooms), conf |-> conf]

\* the loop over t["actual_room"] (lines 244-261): the first room that is not
\* in slots_used[sl]; conf is set by every room passed over before it
RECURSIVE ScanRooms(_, _, _)
ScanRooms(rooms, used, conf) ==
    IF rooms = <<>> THEN [found |-> FALSE, actual |-> <<>>, conf |-> conf]
    ELSE IF Head(rooms) \in used THEN ScanRooms(Tail(rooms), used, TRUE)
    ELSE [found |-> TRUE, actual |-> Head(rooms), conf |-> conf]

\* ScanTasks giving up at the first task none of whose rooms is free
RECURSIVE ScanTasksStopAtFullRoom(_, _, _, _, _, _, _)
ScanTasksStopAtFullRoom(tasks, i, sl, slots_used, teacher_slots, tr_rooms, room_conf) ==
    IF i > Len(tasks)
    THEN [placed |-> FALSE, index |-> 0, actual |-> <<>>,
          tr_rooms |-> tr_rooms, room_conf |-> room_conf]
    ELSE LET t == tasks[i]
         IN  IF TeacherBusy(teacher_slots, t, sl)
             THEN ScanTasksStopAtFullRoom(tasks, i + 1, sl, slots_used, teacher_slots,
                            tr_rooms \cup {teacher_slots[t.teacher][sl]}, room_conf)
             ELSE LET rr == ScanRooms(t.actual_room, slots_used[sl], room_conf)
                  IN  IF rr.found
                      THEN [placed |-> TRUE, index |-> i, actual |-> rr.actual,
                            tr_rooms |-> tr_rooms, room_conf |-> rr.conf]
                      ELSE [placed |-> FALSE, index |-> 0, actual |-> <<>>,
                            tr_rooms |-> tr_rooms, room_conf |-> rr.conf]

\* the loop over list(all_tasks) (lines 239-264) from index i on
RECURSIVE ScanTasks(_, _, _, _, _, _, _)
ScanTasks(tasks, i, sl, slots_used, teacher_slots, tr_rooms, room_conf) ==
    IF i > Len(tasks)
    THEN [placed |-> FALSE, index |-> 0, actual |-> <<>>,
          tr_rooms |-> tr_rooms, room_conf |-> room_conf]
    ELSE LET t == tasks[i]
         IN  IF TeacherBusy(teacher_slots, t, sl)
             THEN ScanTasks(tasks, i + 1, sl, slots_used, teacher_slots,
                            tr_rooms \cup {teacher_slots[t.teacher][sl]}, room_conf)
             ELSE LET rr == ScanRooms(t.actual_room, slots_used[sl], room_conf)
                  IN  IF rr.found
                      THEN [placed |-> TRUE, index |-> i, actual |-> rr.actual,
                            tr_rooms |-> tr_rooms, room_conf |-> rr.conf]
                      ELSE ScanTasks(tasks, i + 1, sl, slots_used, teacher_slots,
                                     tr_rooms, rr.conf)

\* Placed marking the relabelled room, not the concrete one, as consumed
PlacedMarksLabel(st, sl, t, actual, room_priority_map) ==
    LET m == ReMatch(sl)
        d == m.letter
        p == StrToInt(m.number)
        actual_room_converted == convert_room_letter_to_number(actual, room_priority_map)
    IN  [table         |-> TableSet(st.table, day_map(d), p,
                                    DictCell(t.code, t.teacher, actual_room_converted)),
         slots_used    |-> [st.slots_used EXCEPT
                               ![sl] = @ \cup {t.teacher, actual_room_converted}],
         teacher_slots |-> DictSet(st.teacher_slots, t.teacher,
                                   DictSet(DictGet(st.teacher_slots, t.teacher), sl, actual)),
         all_tasks     |-> ListRemove(st.all_tasks, t)]

\* lines 250-260: the placement of task t in room actual at slot sl
Placed(st, sl, t, actual, room_priority_map) ==
    LET m == ReMatch(sl)
        d == m.letter
        p == StrToInt(m.number)
        actual_room_converted == convert_room_letter_to_number(actual, room_priority_map)
    IN  [table         |-> TableSet(st.table, day_map(d), p,
                                    DictCell(t.code, t.teacher, actual_room_converted)),
         slots_used    |-> [st.slots_used EXCEPT ![sl] = @ \cup {t.teacher, actual}],
         teacher_slots |-> DictSet(st.teacher_slots, t.teacher,
                                   DictSet(DictGet(st.teacher_slots, t.teacher), sl, actual)),
         all_tasks     |-> ListRemove(st.all_tasks, t)]

\* the pool without the tasks whose teacher is busy at sl
RECURSIVE DropClashed(_, _, _)
DropClashed(tasks, teacher_slots, sl) ==
    IF tasks = <<>> THEN <<>>
    ELSE IF TeacherBusy(teacher_slots, Head(tasks), sl)
         THEN DropClashed(Tail(tasks), teacher_slots, sl)
         ELSE <<Head(tasks)>> \o DropClashed(Tail(tasks), teacher_slots, sl)

\* VisitSlot removing from the pool the tasks skipped for a teacher clash
VisitSlotDropsClashed(st, sl, room_priority_map) ==
    LET m == ReMatch(sl)
        d == m.letter
        p == StrToInt(m.number)
        r == ScanTasks(st.all_tasks, 1, sl, st.slots_used, st.teacher_slots, {}, FALSE)
    IN  IF st.table[day_map(d)][p] # StrCell(<<>>) THEN st
        ELSE IF r.placed
             THEN Placed(st, sl, st.all_tasks[r.index], r.actual, room_priority_map)
             ELSE [st EXCEPT !.table = TableSet(@, day_map(d), p,
                                 StrCell(fmt(r.tr_rooms, r.room_conf, Len(st.all_tasks)))),
                             !.all_tasks = DropClashed(@, st.teacher_slots, sl)]

\* VisitSlot without the test of lines 234-235
VisitSlotNoSkip(st, sl, room_priority_map) ==
    LET m == ReMatch(sl)
        d == m.letter
        p == StrToInt(m.number)
        r == ScanTasks(st.all_tasks, 1, sl, st.slots_used, st.teacher_slots, {}, FALSE)
    IN  IF r.placed
        THEN Placed(st, sl, st.all_tasks[r.index], r.actual, room_priority_map)
        ELSE [st EXCEPT !.table = TableSet(@, day_map(d), p,
                            StrCell(fmt(r.tr_rooms, r.room_conf, Len(st.all_tasks))))]

\* one iteration of the loop over ordered_slots (lines 232-267)
VisitSlot(st, sl, room_priority_map) ==
    LET m == ReMatch(sl)
        d == m.letter
        p == StrToInt(m.number)
        r == ScanTasks(st.all_tasks, 1, sl, st.slots_used, st.teacher_slots, {}, FALSE)
    IN  IF st.table[day_map(d)][p] # StrCell(<<>>) THEN st
        ELSE IF r.placed
             THEN Placed(st, sl, st.all_tasks[r.index], r.actual, room_priority_map)
             ELSE [st EXCEPT !.table = TableSet(@, day_map(d), p,
                                 StrCell(fmt(r.tr_rooms, r.room_conf, Len(st.all_tasks))))]

\* lines 195-229: the fresh table, the locks and the candidate pool
BeginCall(tracker, g, subs_all, lks) ==
    LET locked == ApplyLocks(lks, g, [table |-> EmptyTable, slots_used |-> tracker.slots_used])
    IN  [table         |-> locked.table,
         slots_used    |-> locked.slots_used,
         teacher_slots |-> tracker.teacher_slots,
         all_tasks     |-> CandidatePool(GroupSubjects(subs_all, g))]

(***************************************************************************)
(* Inputs                                                                  *)
(***************************************************************************)

MaxSubjects == 3

MaxLocks == 1

MaxCalls == 2

MaxRoomLen == 3

MaxTotalCredit == 80

G1 == <<"A", "/", "1">>

G2 == <<"B", "/", "1">>

Groups == {G1, G2}

T1 == <<"T", "1">>

T2 == <<"T", "2">>

\* the subjects load_subjects may deliver (credit in quarter hours)
SubjectCatalogue ==
    << [code |-> <<"M", "1">>, credit |-> 8, teacher |-> T1, weight |-> 5, group |-> G1,
        actual_room |-> << <<"A", "1">> >>],
       [code |-> <<"M", "2">>, credit |-> 4, teacher |-> T1, weight |-> 3, group |-> G2,
        actual_room |-> << <<"A", "1">>, <<"B", "1">> >>],
       [code |-> <<"E", "1">>, credit |-> 3, teacher |-> T2, weight |-> 4, group |-> G2,
        actual_room |-> << <<"A", "1">> >>],
       [code |-> <<"P", "1">>, credit |-> 0, teacher |-> T2, weight |-> 1, group |-> G1,
        actual_room |-> <<>>],
       [code |-> <<"H", "1">>, credit |-> 76, teacher |-> T2, weight |-> 2, group |-> G1,
        actual_room |-> << <<"A", "1", "/", "2">> >>],
       [code |-> <<"E", "2">>, credit |-> 2, teacher |-> T2, weight |-> 4, group |-> G2,
        actual_room |-> << <<"B", "1">> >>] >>

\* the locks add_lock may have appended (name, rooms, day and period non-empty)
LockCatalogue ==
    << [name |-> <<"Assembly">>, rooms |-> << <<"A", "L", "L">> >>,
        day |-> "Monday", period |-> <<"2">>],
       [name |-> <<"Club">>, rooms |-> <<G2>>,
        day |-> "Wednesday", period |-> <<"2">>] >>

\* the elements of cat at the indices of S, in the order of cat
RECURSIVE Pick(_, _, _)
Pick(cat, S, i) ==
    IF i > Len(cat) THEN <<>>
    ELSE IF i \in S THEN <<cat[i]>> \o Pick(cat, S, i + 1)
    ELSE Pick(cat, S, i + 1)

SubjectLists ==
    {Pick(SubjectCatalogue, S, 1) :
        S \in {X \in SUBSET (1..Len(SubjectCatalogue)) : Cardinality(X) <= MaxSubjects}}

LockLists ==
    {Pick(LockCatalogue, S, 1) :
        S \in {X \in SUBSET (1..Len(LockCatalogue)) : Cardinality(X) <= MaxLocks}}

\* subjects of one group whose total credits lie on both sides of 18: credits
\* 18 (36 tasks), 17 (34 tasks), 1 (2 tasks) and 0.25 (1 task)
BandCatalogue ==
    << [code |-> <<"X", "1">>, credit |-> 72, teacher |-> T1, weight |-> 3, group |-> G1,
        actual_room |-> << <<"A", "1">> >>],
       [code |-> <<"W", "1">>, credit |-> 68, teacher |-> T2, weight |-> 1, group |-> G1,
        actual_room |-> << <<"B", "1">> >>],
       [code |-> <<"K", "2">>, credit |-> 4, teacher |-> T1, weight |-> 5, group |-> G1,
        actual_room |-> << <<"A", "1">> >>],
       [code |-> <<"K", "1">>, credit |-> 1, teacher |-> T2, weight |-> 5, group |-> G1,
        actual_room |-> << <<"B", "1">> >>] >>

BandSubjectLists ==
    {Pick(BandCatalogue, S, 1) :
        S \in {X \in SUBSET (1..Len(BandCatalogue)) : Cardinality(X) <= MaxSubjects}}

EmptyMapping == [k \in {} |-> 0]

\* what load_priority_mapping may return: upper-case keys, int values
Mappings == {EmptyMapping, [k \in {<<"A">>, <<"B">>} |-> 1]}

\* the mappings of the direct calls of convert_room_letter_to_number
PureMappings == Mappings \cup {[k \in {<<"A">>} |-> 12]}

RoomAlphabet == {" ", "/", "1", "A", "B", "a"}

RoomStrings == UNION {[1..n -> RoomAlphabet] : n \in 0..MaxRoomLen}

(***************************************************************************)
(* State                                                                   *)
(***************************************************************************)

VARIABLES
    subjects,           \* self.subjects
    locks,              \* self.locks
    room_priority_map,  \* self.priority_mapping
    slots_used,         \* self.slots_used
    teacher_slots,      \* self.teacher_slots
    pc,                 \* "idle" between calls, "walk" inside schedule_room
    group,              \* argument of the running call
    table,              \* its table
    all_tasks,          \* its candidate pool
    ordered_slots,      \* its slot sequence
    idx,                \* position of its loop in ordered_slots
    returned,           \* the (group, table, unplaced) results returned so far
    ref,                \* table, trackers and pool of the same run made with an
                        \* empty room-label mapping
    pure_call           \* a direct call of a side-effect-free entry point

vars == <<subjects, locks, room_priority_map, slots_used, teacher_slots, pc, group,
          table, all_tasks, ordered_slots, idx, returned, ref, pure_call>>

inputs == <<subjects, locks, room_priority_map>>

Cur == [table |-> table, slots_used |-> slots_used,
        teacher_slots |-> teacher_slots, all_tasks |-> all_tasks]

NoCall == [fn |-> "none", room |-> <<>>, mapping |-> EmptyMapping,
           total_credit |-> 0, done |-> FALSE, out |-> <<>>]

\* update_grid, lines 492-493: fresh trackers before the loop over the groups
InitRun ==
    /\ slots_used = [sl \in AllSlots |-> {}]
    /\ teacher_slots = EmptyDict
    /\ pc = "idle"
    /\ group = <<>>
    /\ table = EmptyTable
    /\ all_tasks = <<>>
    /\ ordered_slots = <<>>
    /\ idx = 0
    /\ returned = <<>>
    /\ ref = [table |-> EmptyTable, slots_used |-> [sl \in AllSlots |-> {}],
              teacher_slots |-> EmptyDict, all_tasks |-> <<>>]

Init ==
    /\ subjects \in SubjectLists
    /\ locks \in LockLists
    /\ room_priority_map \in Mappings
    /\ InitRun
    /\ pure_call = NoCall

(***************************************************************************)
(* Actions                                                                 *)
(***************************************************************************)

\* schedule_room(g, ...) up to line 229
ScheduleRoomBegin(g) ==
    /\ pc = "idle"
    /\ Len(returned) < MaxCalls
    /\ LET st == BeginCall(Cur, g, subjects, locks)
           rs == BeginCall(ref, g, subjects, locks)
       IN  /\ table' = st.table
           /\ slots_used' = st.slots_used
           /\ teacher_slots' = st.teacher_slots
           /\ all_tasks' = st.all_tasks
           /\ ref' = rs
    /\ group' = g
    /\ ordered_slots' = generate_schedule_slots(TotalCredit(GroupSubjects(subjects, g)))
    /\ idx' = 1
    /\ pc' = "walk"
    /\ UNCHANGED <<inputs, returned, pure_call>>

\* one iteration of the loop of line 231 (lines 232-267): the cell is skipped,
\* a task is placed, or a diagnostic is written; both runs in step
ScheduleRoomSlot ==
    /\ pc = "walk"
    /\ idx <= Len(ordered_slots)
    /\ LET st == VisitSlot(Cur, ordered_slots[idx], room_priority_map)
           rs == VisitSlot(ref, ordered_slots[idx], EmptyMapping)
       IN  /\ table' = st.table
           /\ slots_used' = st.slots_used
           /\ teacher_slots' = st.teacher_slots
           /\ all_tasks' = st.all_tasks
           /\ ref' = rs
    /\ idx' = idx + 1
    /\ UNCHANGED <<inputs, pc, group, ordered_slots, returned, pure_call>>

\* line 269
ScheduleRoomReturn ==
    /\ pc = "walk"
    /\ idx > Len(ordered_slots)
    /\ returned' = Append(returned, [group |-> group, table |-> table, unplaced |-> all_tasks])
    /\ pc' = "idle"
    /\ UNCHANGED <<inputs, slots_used, teacher_slots, group, table, all_tasks,
                   ordered_slots, idx, ref, pure_call>>

Next ==
    \/ \E g \in Groups : ScheduleRoomBegin(g)
    \/ ScheduleRoomSlot
    \/ ScheduleRoomReturn

Spec == Init /\ [][Next]_vars

\* the same program on subject lists with many tasks, without locks or mapping
InitBands ==
    /\ subjects \in BandSubjectLists
    /\ locks = <<>>
    /\ room_priority_map = EmptyMapping
    /\ InitRun
    /\ pure_call = NoCall

SpecBands == InitBands /\ [][Next]_vars

(***************************************************************************)
(* Direct calls of the side-effect-free entry points                       *)
(***************************************************************************)

PureInputs ==
    {[fn |-> "convert", room |-> r, mapping |-> m, total_credit |-> 0,
      done |-> FALSE, out |-> <<>>] : r \in RoomStrings, m \in PureMappings}
    \cup
    {[fn |-> "slots", room |-> <<>>, mapping |-> EmptyMapping, total_credit |-> c,
      done |-> FALSE, out |-> <<>>] : c \in 0..MaxTotalCredit}

InitPure ==
    /\ subjects = <<>>
    /\ locks = <<>>
    /\ room_priority_map = EmptyMapping
    /\ InitRun
    /\ pure_call \in PureInputs

CallConvert ==
    /\ pure_call.fn = "convert"
    /\ ~pure_call.done
    /\ pure_call' = [pure_call EXCEPT !.done = TRUE,
                        !.out = convert_room_letter_to_number(pure_call.room, pure_call.mapping)]
    /\ UNCHANGED <<inputs, slots_used, teacher_slots, pc, group, table, all_tasks,
                   ordered_slots, idx, returned, ref>>

CallSlots ==
    /\ pure_call.fn = "slots"
    /\ ~pure_call.done
    /\ pure_call' = [pure_call EXCEPT !.done = TRUE,
                        !.out = generate_schedule_slots(pure_call.total_credit)]
    /\ UNCHANGED <<inputs, slots_used, teacher_slots, pc, group, table, all_tasks,
                   ordered_slots, idx, returned, ref>>

NextPure == CallConvert \/ CallSlots

SpecPure == InitPure /\ [][NextPure]_vars

(***************************************************************************)
(* Properties                                                              *)
(***************************************************************************)

\* (day name, period) of every slot name, as line 232 parses it
SlotCoord ==
    [sl \in AllSlots |-> <<day_map(ReMatch(sl).letter), StrToInt(ReMatch(sl).number)>>]

\* the cell of a table at a slot name
CellAt(tbl, sl) == tbl[SlotCoord[sl][1]][SlotCoord[sl][2]]

\* the tables returned so far, followed by the table of the running call
CallsSoFar ==
    [i \in 1..Len(returned) |-> [group |-> returned[i].group, table |-> returned[i].table]]
    \o (IF pc = "walk" THEN <<[group |-> group, table |-> table]>> ELSE <<>>)

IsPlacement(c) == c.kind = "dict"

PlacedCount(tbl) == Cardinality({sl \in AllSlots : IsPlacement(CellAt(tbl, sl))})

\* the text of a cell that is a str; a dict has none
TextOf(c) == IF c.kind = "str" THEN c.text ELSE <<>>

HasPiece(c, piece) == \E k \in 1..Len(TextOf(c)) : TextOf(c)[k] = piece

\* a call has just returned, or the walk of a call is at its last slot
AtCallEnd == pc = "idle" \/ idx > Len(ordered_slots)

\* C1: across all the tables of one run, no slot has two Placement cells with
\* the same teacher.
NoTeacherDoubleBooking ==
    AtCallEnd => \A i, j \in 1..Len(CallsSoFar) : \A sl \in AllSlots :
        (/\ i < j
         /\ IsPlacement(CellAt(CallsSoFar[i].table, sl))
         /\ IsPlacement(CellAt(CallsSoFar[j].table, sl)))
        => CellAt(CallsSoFar[i].table, sl).teacher # CellAt(CallsSoFar[j].table, sl).teacher

\* two calls returned; the second was refused a slot because its teacher is
\* placed there by the first, and places the same teacher at another slot
SharedTeacherPlacedTwice ==
    /\ Len(returned) = 2
    /\ \E sl, sl2 \in AllSlots :
          /\ IsPlacement(CellAt(returned[1].table, sl))
          /\ HasPiece(CellAt(returned[2].table, sl), "teacher clash at ")
          /\ IsPlacement(CellAt(returned[2].table, sl2))
          /\ CellAt(returned[2].table, sl2).teacher = CellAt(returned[1].table, sl).teacher

\* C2 as stated: across all the tables of one run, no slot has two Placement
\* cells with the same room field.
NoRoomFieldShared ==
    AtCallEnd => \A i, j \in 1..Len(CallsSoFar) : \A sl \in AllSlots :
        (/\ i < j
         /\ IsPlacement(CellAt(CallsSoFar[i].table, sl))
         /\ IsPlacement(CellAt(CallsSoFar[j].table, sl)))
        => CellAt(CallsSoFar[i].table, sl).room # CellAt(CallsSoFar[j].table, sl).room

\* the concrete room a Placement cell at sl was made in: the one recorded for
\* its teacher in teacher_slots
ConcreteRoom(c, sl) == teacher_slots[c.teacher][sl]

\* C2 as amended: across all the tables of one run, no slot has two Placement
\* cells made in the same concrete room, and the room field of every Placement
\* is the relabelling of its concrete room.
NoConcreteRoomShared ==
    AtCallEnd => \A i, j \in 1..Len(CallsSoFar) : \A sl \in AllSlots :
        LET ci == CellAt(CallsSoFar[i].table, sl)
            cj == CellAt(CallsSoFar[j].table, sl)
        IN  /\ IsPlacement(ci) =>
                 /\ ci.teacher \in DOMAIN teacher_slots
                 /\ sl \in DOMAIN teacher_slots[ci.teacher]
                 /\ ci.room = convert_room_letter_to_number(ConcreteRoom(ci, sl),
                                                            room_priority_map)
            /\ (i < j /\ IsPlacement(ci) /\ IsPlacement(cj))
                 => ConcreteRoom(ci, sl) # ConcreteRoom(cj, sl)

\* two tables place at the same slot in different concrete rooms that carry
\* the same room text
TwoRoomsOneLabel ==
    \E sl \in AllSlots : \E i, j \in 1..Len(CallsSoFar) :
        /\ i < j
        /\ IsPlacement(CellAt(CallsSoFar[i].table, sl))
        /\ IsPlacement(CellAt(CallsSoFar[j].table, sl))
        /\ CellAt(CallsSoFar[i].table, sl).room = CellAt(CallsSoFar[j].table, sl).room
        /\ ConcreteRoom(CellAt(CallsSoFar[i].table, sl), sl)
             # ConcreteRoom(CellAt(CallsSoFar[j].table, sl), sl)

\* the number of tasks of a group: max(1, floor(2*credit)) per subject
RECURSIVE TasksOf(_, _)
TasksOf(subs, g) ==
    IF subs = <<>> THEN 0
    ELSE (IF Head(subs).group # g THEN 0
          ELSE IF Head(subs).credit < 2 THEN 1
          ELSE Head(subs).credit \div 2)
         + TasksOf(Tail(subs), g)

\* C3: for every returned call, Placement cells plus unplaced tasks are the
\* tasks of the group; during a call, Placement cells plus the pool are.
TaskConservation ==
    /\ \A i \in 1..Len(returned) :
          PlacedCount(returned[i].table) + Len(returned[i].unplaced)
            = TasksOf(subjects, returned[i].group)
    /\ pc = "walk" => PlacedCount(table) + Len(all_tasks) = TasksOf(subjects, group)

\* a second call on used trackers returned with some tasks placed and some not
SomePlacedSomeUnplaced ==
    /\ Len(returned) = 2
    /\ returned[2].unplaced # <<>>
    /\ PlacedCount(returned[2].table) > 0
    /\ \E sl \in AllSlots : HasPiece(CellAt(returned[2].table, sl), "room full")

\* C4 as stated: generate_schedule_slots returns 55 slots, one for each day
\* and each period 1..11, none twice.
SlotsAre55 ==
    (pure_call.fn = "slots" /\ pure_call.done) =>
        /\ Len(pure_call.out) = 55
        /\ \A i, j \in 1..Len(pure_call.out) : i # j => pure_call.out[i] # pure_call.out[j]
        /\ {pure_call.out[i] : i \in 1..Len(pure_call.out)} = AllSlots

\* C4 as amended: generate_schedule_slots returns 50 slots, one for each day
\* and each period of 1..11 other than 5, none twice.
SlotsAre50WithoutPeriod5 ==
    (pure_call.fn = "slots" /\ pure_call.done) =>
        /\ Len(pure_call.out) = 50
        /\ \A i, j \in 1..Len(pure_call.out) : i # j => pure_call.out[i] # pure_call.out[j]
        /\ {<<ReMatch(pure_call.out[i]).letter, StrToInt(ReMatch(pure_call.out[i]).number)>> :
                i \in 1..Len(pure_call.out)}
             = {<<days[k], p>> : k \in 1..Len(days), p \in periods \ {5}}

\* the sequencer returned for a low total credit
SlotsReturnedLowLoad ==
    pure_call.fn = "slots" /\ pure_call.done /\ pure_call.total_credit = 18 * 4

\* the locks of the run that name the group or ALL, by their slot
MatchingLockNames(g, sl) ==
    {locks[k].name : k \in {n \in 1..Len(locks) :
        /\ SlotName(DAY_TH_TO_CODE[locks[n].day], StrToInt(locks[n].period)) = sl
        /\ \E r \in 1..Len(locks[n].rooms) :
              locks[n].rooms[r] \in {<<"A", "L", "L">>, g}}}

\* C5: before the first slot of the walk is visited, and in every table at the
\* end of its call, the cell of every matching lock holds the name of a
\* matching lock of that slot.
LockPrecedence ==
    (AtCallEnd \/ idx = 1) => \A i \in 1..Len(CallsSoFar) : \A sl \in AllSlots :
        MatchingLockNames(CallsSoFar[i].group, sl) # {} =>
            /\ CellAt(CallsSoFar[i].table, sl).kind = "str"
            /\ CellAt(CallsSoFar[i].table, sl).text
                 \in MatchingLockNames(CallsSoFar[i].group, sl)

\* a call returned whose first slot is locked, with tasks placed and tasks left
LockedSlotKeptUnderPressure ==
    /\ Len(returned) >= 1
    /\ MatchingLockNames(returned[1].group, ordered_slots[1]) # {}
    /\ PlacedCount(returned[1].table) > 0
    /\ returned[1].unplaced # <<>>

\* the call is the first of the run, with no lock, for a group with one
\* subject that has a room and no more tasks than the sequence has slots
OneSubjectFirstCall ==
    /\ Len(returned) >= 1
    /\ locks = <<>>
    /\ Len(GroupSubjects(subjects, returned[1].group)) = 1
    /\ GroupSubjects(subjects, returned[1].group)[1].actual_room # <<>>
    /\ TasksOf(subjects, returned[1].group)
         <= Len(generate_schedule_slots(GroupSubjects(subjects, returned[1].group)[1].credit))

\* C6 as stated: the T tasks of the only subject sit at the first T slots of
\* the sequence with its teacher and the first room of actual_room, the later
\* slots say "no subject", and nothing is unplaced.
OneSubjectFillsFirstSlots ==
    OneSubjectFirstCall =>
        LET s   == GroupSubjects(subjects, returned[1].group)[1]
            T   == TasksOf(subjects, returned[1].group)
            seq == generate_schedule_slots(s.credit)
        IN  /\ returned[1].unplaced = <<>>
            /\ \A k \in 1..Len(seq) :
                  CellAt(returned[1].table, seq[k]) =
                     IF k <= T THEN DictCell(s.code, s.teacher, s.actual_room[1])
                     ELSE StrCell(<<"no subject">>)

\* C6 as amended: the same, but the room field of the Placements is the
\* relabelling of the first room of actual_room; the first room itself is
\* what teacher_slots records.
OneSubjectFillsFirstSlotsRelabelled ==
    OneSubjectFirstCall =>
        LET s   == GroupSubjects(subjects, returned[1].group)[1]
            T   == TasksOf(subjects, returned[1].group)
            seq == generate_schedule_slots(s.credit)
        IN  /\ returned[1].unplaced = <<>>
            /\ \A k \in 1..Len(seq) :
                  /\ CellAt(returned[1].table, seq[k]) =
                       IF k <= T
                       THEN DictCell(s.code, s.teacher,
                              convert_room_letter_to_number(s.actual_room[1],
                                                            room_priority_map))
                       ELSE StrCell(<<"no subject">>)
                  /\ k <= T => teacher_slots[s.teacher][seq[k]] = s.actual_room[1]

\* such a call returned for a subject with two rooms whose first room is
\* relabelled by the mapping
OneSubjectRelabelled ==
    /\ OneSubjectFirstCall
    /\ Len(GroupSubjects(subjects, returned[1].group)[1].actual_room) > 1
    /\ convert_room_letter_to_number(
          GroupSubjects(subjects, returned[1].group)[1].actual_room[1], room_priority_map)
         # GroupSubjects(subjects, returned[1].group)[1].actual_room[1]

(***************************************************************************)
(* Properties of one iteration of the walk                                 *)
(***************************************************************************)

Walking == pc = "walk" /\ idx <= Len(ordered_slots)

CurSlot == ordered_slots[idx]

TeacherFree(t, sl) ==
    ~(t.teacher \in DOMAIN teacher_slots /\ sl \in DOMAIN teacher_slots[t.teacher])

RoomFree(t, sl) == \E k \in 1..Len(t.actual_room) : t.actual_room[k] \notin slots_used[sl]

Placeable(t, sl) == TeacherFree(t, sl) /\ RoomFree(t, sl)

Count(l, x) == Cardinality({k \in 1..Len(l) : l[k] = x})

\* an earlier call for another group placed this teacher at sl
OtherGroupPlaces(teacher, sl) ==
    \E i \in 1..Len(returned) :
        /\ returned[i].group # group
        /\ IsPlacement(CellAt(returned[i].table, sl))
        /\ CellAt(returned[i].table, sl).teacher = teacher

\* the running call follows a call for another group that placed the teacher
SharesTeacher(t) == \E sl \in AllSlots : OtherGroupPlaces(t.teacher, sl)

PlacedHere(t) ==
    /\ IsPlacement(CellAt(table', CurSlot))
    /\ CellAt(table', CurSlot).code = t.code
    /\ CellAt(table', CurSlot).teacher = t.teacher
    /\ Count(all_tasks', t) = Count(all_tasks, t) - 1

ReturnsPool ==
    (pc = "walk" /\ pc' = "idle") =>
        returned' = Append(returned, [group |-> group, table |-> table, unplaced |-> all_tasks])

\* C7 as stated: a task of the second group whose teacher the first group
\* placed stays in the pool at the slots where that teacher is placed, is
\* placed at the first slot where its teacher and one of its rooms are free
\* (read here at the slots whose cell is still empty, the only ones offered
\* to tasks), and is returned as unplaced otherwise.
SharedTeacherTakesNextFreeSlot ==
    [][/\ Walking =>
            \A k \in 1..Len(all_tasks) :
                /\ OtherGroupPlaces(all_tasks[k].teacher, CurSlot)
                     => Count(all_tasks', all_tasks[k]) = Count(all_tasks, all_tasks[k])
                /\ (/\ CellAt(table, CurSlot) = StrCell(<<>>)
                    /\ Placeable(all_tasks[k], CurSlot)
                    /\ SharesTeacher(all_tasks[k]))
                     => PlacedHere(all_tasks[k])
       /\ ReturnsPool]_vars

\* C7 as amended: the same, but the task is placed at the first slot, still
\* empty in the table, where its teacher and one of its rooms are free and no
\* earlier task of the pool is placeable there.
SharedTeacherTakesNextOpenSlot ==
    [][/\ Walking =>
            /\ \A k \in 1..Len(all_tasks) :
                  /\ OtherGroupPlaces(all_tasks[k].teacher, CurSlot)
                       => Count(all_tasks', all_tasks[k]) = Count(all_tasks, all_tasks[k])
                  /\ (/\ CellAt(table, CurSlot) = StrCell(<<>>)
                      /\ Placeable(all_tasks[k], CurSlot)
                      /\ \A j \in 1..(k - 1) : ~Placeable(all_tasks[j], CurSlot)
                      /\ SharesTeacher(all_tasks[k]))
                       => PlacedHere(all_tasks[k])
            /\ all_tasks' # all_tasks => IsPlacement(CellAt(table', CurSlot))
       /\ ReturnsPool]_vars

\* the second group has just placed a teacher that it was refused, at an
\* earlier slot, because the first group places that teacher there, after an
\* earlier task of its pool took a slot at which the teacher was free
SkippedThenPlacedLater ==
    /\ pc = "walk"
    /\ Len(returned) = 1
    /\ returned[1].group # group
    /\ idx > 3
    /\ idx <= Len(ordered_slots)
    /\ IsPlacement(CellAt(table, ordered_slots[idx - 1]))
    /\ IsPlacement(CellAt(table, ordered_slots[idx - 2]))
    /\ CellAt(table, ordered_slots[idx - 2]).teacher
         # CellAt(table, ordered_slots[idx - 1]).teacher
    /\ \E k \in 1..(idx - 3) :
          /\ IsPlacement(CellAt(returned[1].table, ordered_slots[k]))
          /\ CellAt(returned[1].table, ordered_slots[k]).teacher
               = CellAt(table, ordered_slots[idx - 1]).teacher
          /\ HasPiece(CellAt(table, ordered_slots[k]), "teacher clash at ")

SameButRoom(c1, c2) ==
    /\ c1.kind = c2.kind
    /\ c1.kind = "str" => c1.text = c2.text
    /\ c1.kind = "dict" => c1.code = c2.code /\ c1.teacher = c2.teacher

\* C8: the run and the run with the empty mapping agree, at every step of
\* every call up to its return, on both trackers, the pool (the unplaced list
\* at the return) and every cell of the table up to the room text of the
\* Placements.
MappingDoesNotSteer ==
    /\ slots_used = ref.slots_used
    /\ teacher_slots = ref.teacher_slots
    /\ all_tasks = ref.all_tasks
    /\ \A sl \in AllSlots : SameButRoom(CellAt(table, sl), CellAt(ref.table, sl))
    /\ (pc = "idle" /\ Len(returned) >= 1) =>
          /\ returned[Len(returned)].unplaced = ref.all_tasks
          /\ \A sl \in AllSlots :
                SameButRoom(CellAt(returned[Len(returned)].table, sl), CellAt(ref.table, sl))

\* two calls returned under a mapping that changed a room text, the second
\* with a slot refused for a full room
MappingChangedLabel ==
    /\ Len(returned) = 2
    /\ pc = "idle"
    /\ \E sl \in AllSlots :
          /\ IsPlacement(CellAt(returned[2].table, sl))
          /\ CellAt(returned[2].table, sl).room # CellAt(ref.table, sl).room
    /\ \E sl \in AllSlots : HasPiece(CellAt(returned[2].table, sl), "room full")

\* C9: convert_room_letter_to_number returns the room unchanged when the
\* identifier has no letters-then-digits prefix or its letters are not a key
\* of the mapping.
UnknownPrefixUnchanged ==
    (pure_call.fn = "convert" /\ pure_call.done) =>
        LET m == ReMatch(upper(strip(pure_call.room)))
        IN  (~m.ok \/ m.letter \notin DOMAIN pure_call.mapping)
              => pure_call.out = pure_call.room

\* the index of the earliest placeable task of the pool at sl
FirstPlaceable(sl) ==
    CHOOSE k \in 1..Len(all_tasks) :
        /\ Placeable(all_tasks[k], sl)
        /\ \A j \in 1..(k - 1) : ~Placeable(all_tasks[j], sl)

\* the first room of the task that is not in slots_used at sl
FirstFreeRoom(t, sl) ==
    t.actual_room[CHOOSE k \in 1..Len(t.actual_room) :
        /\ t.actual_room[k] \notin slots_used[sl]
        /\ \A j \in 1..(k - 1) : t.actual_room[j] \in slots_used[sl]]

\* C10: at an empty cell the earliest placeable task of the pool is placed in
\* its first free room, the trackers record the teacher and that room, and
\* that one task leaves the pool; with no placeable task, and at a filled
\* cell, nothing is placed and pool and trackers are unchanged.
FirstFit ==
    [][Walking =>
        IF /\ CellAt(table, CurSlot) = StrCell(<<>>)
           /\ \E k \in 1..Len(all_tasks) : Placeable(all_tasks[k], CurSlot)
        THEN LET k0 == FirstPlaceable(CurSlot)
                 t  == all_tasks[k0]
                 r  == FirstFreeRoom(t, CurSlot)
             IN  /\ CellAt(table', CurSlot).kind = "dict"
                 /\ CellAt(table', CurSlot).code = t.code
                 /\ CellAt(table', CurSlot).teacher = t.teacher
                 /\ slots_used' = [slots_used EXCEPT ![CurSlot] = @ \cup {t.teacher, r}]
                 /\ teacher_slots'[t.teacher][CurSlot] = r
                 /\ \A x \in DOMAIN teacher_slots : \A sl \in DOMAIN teacher_slots[x] :
                       teacher_slots'[x][sl] = teacher_slots[x][sl]
                 /\ all_tasks' = [i \in 1..(Len(all_tasks) - 1) |->
                                    IF i < k0 THEN all_tasks[i] ELSE all_tasks[i + 1]]
        ELSE /\ ~IsPlacement(CellAt(table', CurSlot))
             /\ all_tasks' = all_tasks
             /\ slots_used' = slots_used
             /\ teacher_slots' = teacher_slots]_vars

\* a task was placed in the second room of its list, and a later slot was
\* left without a placement although the pool is not empty
SecondRoomTaken ==
    /\ pc = "walk"
    /\ all_tasks # <<>>
    /\ \E sl \in AllSlots :
          /\ IsPlacement(CellAt(table, sl))
          /\ teacher_slots[CellAt(table, sl).teacher][sl] = <<"B", "1">>
          /\ CellAt(table, sl).code = <<"M", "2">>
    /\ \E sl \in AllSlots : HasPiece(CellAt(table, sl), "room full")

(***************************************************************************)
(* Diagnostic labels                                                       *)
(***************************************************************************)

\* the rooms teacher_slots records at sl for the teachers of the pool tasks
ClashRooms(sl) ==
    {teacher_slots[all_tasks[k].teacher][sl] :
        k \in {j \in 1..Len(all_tasks) : ~TeacherFree(all_tasks[j], sl)}}

\* a pool task whose teacher is free at sl has a room already in slots_used
RoomTaken(sl) ==
    \E k \in 1..Len(all_tasks) :
        /\ TeacherFree(all_tasks[k], sl)
        /\ \E j \in 1..Len(all_tasks[k].actual_room) :
              all_tasks[k].actual_room[j] \in slots_used[sl]

\* a sequence of characters and "," pieces cut at the "," pieces
RECURSIVE SplitComma(_)
SplitComma(s) ==
    IF \A i \in 1..Len(s) : s[i] # "," THEN {s}
    ELSE LET k == CHOOSE i \in 1..Len(s) :
                      s[i] = "," /\ \A j \in 1..(i - 1) : s[j] # ","
         IN  {SubSeq(s, 1, k - 1)} \cup SplitComma(SubSeq(s, k + 1, Len(s)))

\* the room names a label lists in its teacher-clash part
NamedRooms(c) ==
    IF ~HasPiece(c, "teacher clash at ") THEN {}
    ELSE LET text == TextOf(c)
             i == CHOOSE k \in 1..Len(text) : text[k] = "teacher clash at "
             j == CHOOSE k \in (i + 1)..Len(text) :
                      /\ text[k] \in {", ", ")"}
                      /\ \A h \in (i + 1)..(k - 1) : text[h] \notin {", ", ")"}
         IN  SplitComma(SubSeq(text, i + 1, j - 1))

\* the walk visits an open cell and places nothing in it
NothingPlacedHere ==
    /\ Walking
    /\ CellAt(table, CurSlot) = StrCell(<<>>)
    /\ ~IsPlacement(CellAt(table', CurSlot))

\* C11 as stated: at a visited open slot where nothing is placed the cell is
\* "no subject" exactly when the pool is empty; otherwise it is the
\* unplaceable label with at least one reason: a teacher-clash part for exactly
\* the rooms teacher_slots records for the pool's teachers at the slot (read
\* here as their short names), and a room-full part exactly when a pool task
\* with a free teacher has a room already in slots_used.
DiagnosticAlwaysHasReason ==
    [][NothingPlacedHere =>
        LET c == CellAt(table', CurSlot)
        IN  /\ c.kind = "str"
            /\ (c = StrCell(<<"no subject">>)) <=> (all_tasks = <<>>)
            /\ all_tasks # <<>> =>
                  /\ Head(c.text) = "unplaceable"
                  /\ HasPiece(c, "teacher clash at ") \/ HasPiece(c, "room full")
                  /\ NamedRooms(c) = {short_room(r) : r \in ClashRooms(CurSlot)}
                  /\ HasPiece(c, "room full") <=> RoomTaken(CurSlot)]_vars

\* C11 as amended: the same, but the unplaceable label carries no reason at
\* all (the bare label) when no pool task has a busy teacher and none has a
\* room in slots_used, as when every pool task has an empty actual_room; the
\* teacher-clash part lists short_room(r) of the recorded rooms r.
DiagnosticLabelling ==
    [][NothingPlacedHere =>
        LET c == CellAt(table', CurSlot)
        IN  /\ c.kind = "str"
            /\ (c = StrCell(<<"no subject">>)) <=> (all_tasks = <<>>)
            /\ all_tasks # <<>> =>
                  /\ Head(c.text) = "unplaceable"
                  /\ HasPiece(c, "teacher clash at ") <=> ClashRooms(CurSlot) # {}
                  /\ NamedRooms(c) = {short_room(r) : r \in ClashRooms(CurSlot)}
                  /\ HasPiece(c, "room full") <=> RoomTaken(CurSlot)
                  /\ (c = StrCell(<<"unplaceable">>))
                        <=> (ClashRooms(CurSlot) = {} /\ ~RoomTaken(CurSlot))
            /\ all_tasks' = all_tasks]_vars

\* the table of the running call, its pool not empty, holds both a bare
\* unplaceable label and one with a teacher-clash part and a room-full part
LabelsOfEveryKind ==
    /\ pc = "walk"
    /\ all_tasks # <<>>
    /\ \E sl \in AllSlots : CellAt(table, sl) = StrCell(<<"unplaceable">>)
    /\ \E sl \in AllSlots :
          /\ HasPiece(CellAt(table, sl), "teacher clash at ")
          /\ HasPiece(CellAt(table, sl), "room full")
          /\ NamedRooms(CellAt(table, sl)) # {}

(***************************************************************************)
(* Candidate pool                                                          *)
(***************************************************************************)

\* the call has built its pool (line 228) and has visited no slot yet
PoolFresh == pc = "walk" /\ idx = 1

\* the tasks of the running call's group in generation order (lines 220-222)
GeneratedTasks == GenerateTasks(GroupSubjects(subjects, group))

\* the total credit of the running call's group, in quarter hours
GroupCredit == TotalCredit(GroupSubjects(subjects, group))

\* positions lo+1..hi of the pool hold the tasks of the same positions of the
\* generated list, by descending weight and then ascending code
BandSorted(pool, tasks, lo, hi) ==
    LET a == Min(lo, Len(tasks))
        b == Min(hi, Len(tasks))
    IN  /\ \A i \in (a + 1)..b :
              Cardinality({k \in (a + 1)..b : pool[k] = pool[i]})
                = Cardinality({k \in (a + 1)..b : tasks[k] = pool[i]})
        /\ \A i \in (a + 1)..(b - 1) :
              \/ pool[i].weight > pool[i + 1].weight
              \/ /\ pool[i].weight = pool[i + 1].weight
                 /\ ~StrLess(pool[i + 1].code, pool[i].code)

\* C12: the pool is the generated task list cut by index into the first
\* red_n tasks (15 when the total credit is at most 18, else 20), the next 10
\* and the rest, each band sorted on its own by descending weight, then code.
PoolIsThreeSortedBands ==
    PoolFresh =>
        LET red_n == IF GroupCredit <= 18 * 4 THEN 15 ELSE 20
        IN  /\ Len(all_tasks) = Len(GeneratedTasks)
            /\ BandSorted(all_tasks, GeneratedTasks, 0, red_n)
            /\ BandSorted(all_tasks, GeneratedTasks, red_n, red_n + 10)
            /\ BandSorted(all_tasks, GeneratedTasks, red_n + 10, Len(GeneratedTasks))

\* at a total credit of exactly 18 the red band has 15 tasks, and the yellow
\* band holds a task heavier than a task of the red band
HeavierTaskInYellowBand ==
    /\ PoolFresh
    /\ GroupCredit = 18 * 4
    /\ Len(all_tasks) > 25
    /\ \E i \in 1..15 : \E j \in 26..Len(all_tasks) :
          all_tasks[j].weight > all_tasks[i].weight

(***************************************************************************)
(* Conflict trackers                                                       *)
(***************************************************************************)

\* the Placement cells of all tables at a slot
PlacementsAt(sl) ==
    {CellAt(CallsSoFar[i].table, sl) :
        i \in {k \in 1..Len(CallsSoFar) : IsPlacement(CellAt(CallsSoFar[k].table, sl))}}

\* the teachers placed at a slot and the rooms teacher_slots records for them
ConsumedAt(sl) ==
    {c.teacher : c \in PlacementsAt(sl)}
    \cup {teacher_slots[c.teacher][sl] : c \in PlacementsAt(sl)}

\* the groups scheduled so far that have a matching lock at the slot
LockedGroupsAt(sl) ==
    {CallsSoFar[i].group :
        i \in {k \in 1..Len(CallsSoFar) : MatchingLockNames(CallsSoFar[k].group, sl) # {}}}

\* teacher_slots[t][sl] is defined exactly for the Placements with teacher t at
\* sl; its room is a room of the placed subject and the one the cell shows
\* relabelled
TeacherSlotsArePlacements ==
    /\ \A t \in DOMAIN teacher_slots : \A sl \in DOMAIN teacher_slots[t] :
          \E c \in PlacementsAt(sl) : c.teacher = t
    /\ \A sl \in AllSlots : \A i \in 1..Len(CallsSoFar) :
          LET c == CellAt(CallsSoFar[i].table, sl)
          IN  IsPlacement(c) =>
                /\ c.teacher \in DOMAIN teacher_slots
                /\ sl \in DOMAIN teacher_slots[c.teacher]
                /\ c.room = convert_room_letter_to_number(teacher_slots[c.teacher][sl],
                                                          room_priority_map)
                /\ \E n \in 1..Len(subjects) :
                      /\ subjects[n].group = CallsSoFar[i].group
                      /\ subjects[n].code = c.code
                      /\ subjects[n].teacher = c.teacher
                      /\ \E k \in 1..Len(subjects[n].actual_room) :
                            subjects[n].actual_room[k] = teacher_slots[c.teacher][sl]

\* entries of the two maps are only added
OnlyAdded ==
    /\ \A sl \in AllSlots : slots_used[sl] \subseteq slots_used'[sl]
    /\ \A t \in DOMAIN teacher_slots : \A sl \in DOMAIN teacher_slots[t] :
          /\ t \in DOMAIN teacher_slots'
          /\ sl \in DOMAIN teacher_slots'[t]
          /\ teacher_slots'[t][sl] = teacher_slots[t][sl]

\* C13 as stated: after any sequence of calls on the shared maps, slots_used
\* at every slot is exactly the teachers and concrete rooms of the Placements
\* made there, teacher_slots[t][s] = r exactly for the Placements of t at s in
\* room r, and entries are only ever added.
TrackersArePlacements ==
    /\ [](AtCallEnd =>
            /\ \A sl \in AllSlots : slots_used[sl] = ConsumedAt(sl)
            /\ TeacherSlotsArePlacements)
    /\ [][OnlyAdded]_vars

\* C13 as amended: the same, but slots_used at a slot holds, besides the
\* teachers and concrete rooms of the Placements made there, the id of every
\* group scheduled so far that has a matching lock at that slot.
TrackersArePlacementsAndLocks ==
    /\ [](AtCallEnd =>
            /\ \A sl \in AllSlots : slots_used[sl] = ConsumedAt(sl) \cup LockedGroupsAt(sl)
            /\ TeacherSlotsArePlacements)
    /\ [][OnlyAdded]_vars

\* two calls returned: one slot holds the id of a locked group, and another
\* the teachers and rooms of the Placements of two groups
LockedAndDoublyPlaced ==
    /\ pc = "idle"
    /\ Len(returned) = 2
    /\ \E sl \in AllSlots : LockedGroupsAt(sl) # {} /\ LockedGroupsAt(sl) \subseteq slots_used[sl]
    /\ \E sl \in AllSlots :
          /\ Cardinality(PlacementsAt(sl)) = 2
          /\ Cardinality(slots_used[sl]) = 4

====
